---- MODULE Spec2Model ----
(***************************************************************************)
(* Model of the pipeline board of DealFlow (dealflow-ui, app/pipeline/     *)
(* page.tsx): the React state of PipelinePage, its event handlers          *)
(* handleDragStart / handleDrop / fetchPipelineData, the requests they     *)
(* leave in flight, and the Pipeline Data Source that answers them.        *)
(*                                                                         *)
(* One action is one event-handling turn of the single JavaScript thread:  *)
(* the synchronous part of a handler up to its first await, or the         *)
(* continuation that runs when an awaited response arrives.  React renders  *)
(* between turns, so every handler reads the state the turn before it left. *)
(***************************************************************************)
EXTENDS Integers, Sequences, FiniteSets

\* ------------------------------------------------------------------ bounds
\* cross-stage drops handled in one run of the page; it also bounds the
\* cards a board can hold
MaxMoves == 2
\* requests of one kind (stage updates, board fetches) in flight at once
MaxInFlight == 2

\* --------------------------------------------------------------- constants
\* ids of STAGE_CONFIGS, in display order
STAGE_CONFIGS ==
  <<"new", "screening", "diligence", "ic_review", "term_sheet",
    "closed_won", "closed_lost", "passed">>

\* the columns of the model: two non-terminal stages and a terminal one
Stages == {STAGE_CONFIGS[1], STAGE_CONFIGS[3], STAGE_CONFIGS[6]}

\* stages the Pipeline Data Source does not count as active
TerminalStages == {"closed_won", "closed_lost", "passed"}

\* the deals the Pipeline Data Source knows, in the order it lists them
DealOrder == <<"dealA", "dealB">>

\* most cards a board can come to hold
MaxCards == Len(DealOrder) + MaxMoves
Deals == {DealOrder[i] : i \in 1..Len(DealOrder)}

\* a PipelineDeal: the identifier and the stage field (the other fields
\* are copied unchanged by every operation)
PipelineDeal(id, st) == [analysis_id |-> id, stage |-> st]

\* useState<PipelineDeal | null>(null) and useState<string | null>(null)
NoDeal == [analysis_id |-> "none", stage |-> "none"]
NoStage == "none"

VARIABLES
  board,            \* useState board: stage -> sequence of PipelineDeal
  counts,           \* useState counts: stage -> number
  totalDeals,       \* useState totalDeals
  activeDeals,      \* useState activeDeals
  loading,          \* useState loading
  draggedDeal,      \* useState draggedDeal
  dragSourceStage,  \* useState dragSourceStage
  puts,             \* PUT pipeline/{id}/stage requests in flight, by issue order
  fetches,          \* GET pipeline/ requests in flight, by issue order; each
                    \* notes whether the answer applied last overtook it
  server,           \* the Pipeline Data Source: deal -> stage
  gesture,          \* the browser's drag gesture: "none", "foreign", or the
                    \* column the dragged card was taken from
  moves,            \* cross-stage drops handled so far
  last              \* the kind of the last turn: a drag-start, a drop that
                    \* found a session, the handling of an answer; "other"
                    \* for the turns of the server and the rest of the user's

vars == <<board, counts, totalDeals, activeDeals, loading, draggedDeal,
          dragSourceStage, puts, fetches, server, gesture, moves, last>>

store == <<board, counts, totalDeals, activeDeals>>
session == <<draggedDeal, dragSourceStage>>

\* ----------------------------------------------------------------- helpers
RemoveAt(seq, i) == SubSeq(seq, 1, i - 1) \o SubSeq(seq, i + 1, Len(seq))

RECURSIVE SumOver(_, _)
SumOver(f, S) ==
  IF S = {} THEN 0
  ELSE LET x == CHOOSE y \in S : TRUE IN f[x] + SumOver(f, S \ {x})

\* JavaScript's  v || d  on numbers: 0 and undefined are both falsy, so a
\* missing key of counts and a key holding 0 behave alike everywhere
OrElse(v, d) == IF v = 0 THEN d ELSE v

EmptyBoard == [s \in Stages |-> <<>>]
EmptyCounts == [s \in Stages |-> 0]

\* how many cards of the board carry the identifier d
Occurrences(b, d) ==
  SumOver([s \in Stages |->
             Len(SelectSeq(b[s], LAMBDA c : c.analysis_id = d))], Stages)

\* what a drop event finds: no session ("other"), the source column, another
\* column
DropKind(targetStageId) ==
  IF draggedDeal = NoDeal \/ dragSourceStage = NoStage THEN "other"
  ELSE IF dragSourceStage = targetStageId THEN "dropSameStage"
  ELSE "dropCrossStage"

\* ------------------------------------------------- the Pipeline Data Source
\* GET pipeline/ : the snapshot of a server state
SnapshotBoard(srv) ==
  [s \in Stages |->
     LET ids == SelectSeq(DealOrder, LAMBDA d : srv[d] = s)
     IN [i \in 1..Len(ids) |-> PipelineDeal(ids[i], s)]]

Snapshot(srv) ==
  LET b == SnapshotBoard(srv) IN
  [board |-> b,
   counts |-> [s \in Stages |-> Len(b[s])],
   total_deals |-> Cardinality(Deals),
   active_deals |-> Cardinality({d \in Deals : srv[d] \notin TerminalStages})]

NoSnap == [d \in Deals |-> NoStage]

\* the JSON the client reads: the full snapshot, or one that comes without
\* its counts (data.counts || {} then makes every count 0)
Payload(srv, wire) ==
  IF wire = "full" THEN Snapshot(srv)
  ELSE [Snapshot(srv) EXCEPT !.counts = EmptyCounts]

\* ------------------------------------------------------- fetchPipelineData
\* the synchronous part: setLoading(true) and the GET is issued
IssueFetch(cause) ==
  /\ loading' = TRUE
  /\ fetches' = Append(fetches, [st |-> "sent", snap |-> NoSnap,
                                 wire |-> "full", cause |-> cause,
                                 overtaken |-> FALSE])

\* Load with setCounts left out
Load_KeepCounts(data) ==
  /\ board' = data.board
  /\ counts' = counts
  /\ totalDeals' = OrElse(data.total_deals, 0)
  /\ activeDeals' = OrElse(data.active_deals, 0)

\* setBoard(data.board || {}) ... setActiveDeals(data.active_deals || 0)
Load(data) ==
  /\ board' = data.board
  /\ counts' = data.counts
  /\ totalDeals' = OrElse(data.total_deals, 0)
  /\ activeDeals' = OrElse(data.active_deals, 0)

\* the server answers a GET with the snapshot of its state
ServerHandleFetch(i) ==
  /\ fetches[i].st = "sent"
  /\ fetches' = [fetches EXCEPT ![i] =
                   [st |-> "ok", snap |-> server, wire |-> "full",
                    cause |-> fetches[i].cause,
                    overtaken |-> fetches[i].overtaken]]
  /\ last' = "other"
  /\ UNCHANGED <<store, loading, session, puts, server, gesture, moves>>

\* the server answers a GET with a payload whose counts are missing
ServerHandleFetchNoCounts(i) ==
  /\ fetches[i].st = "sent"
  /\ fetches' = [fetches EXCEPT ![i] =
                   [st |-> "ok", snap |-> server, wire |-> "noCounts",
                    cause |-> fetches[i].cause,
                    overtaken |-> fetches[i].overtaken]]
  /\ last' = "other"
  /\ UNCHANGED <<store, loading, session, puts, server, gesture, moves>>

\* the fetches left in flight once the answer of fetch i has been applied;
\* each notes whether that answer was of a fetch issued after it
Overtake(i) ==
  LET rest == RemoveAt(fetches, i)
  IN [j \in 1..Len(rest) |-> [rest[j] EXCEPT !.overtaken = (j < i)]]

\* response.ok: the snapshot is loaded, then finally setLoading(false)
FetchOk(i) ==
  /\ fetches[i].st = "ok"
  /\ Load(Payload(fetches[i].snap, fetches[i].wire))
  /\ loading' = FALSE
  /\ fetches' = Overtake(i)
  /\ last' = IF fetches[i].cause = "revert" THEN "fetchOkRevert" ELSE "fetchOkMount"
  /\ UNCHANGED <<session, puts, server, gesture, moves>>

\* FetchFail with a catch block that empties the board
FetchFail_ClearsBoard(i) ==
  /\ board' = EmptyBoard
  /\ counts' = EmptyCounts
  /\ loading' = FALSE
  /\ fetches' = RemoveAt(fetches, i)
  /\ last' = IF fetches[i].cause = "revert" THEN "fetchFailRevert" ELSE "fetchFailMount"
  /\ UNCHANGED <<totalDeals, activeDeals, session, puts, server, gesture, moves>>

\* !response.ok or a transport error (the request or its answer is lost, or
\* the server answers non-2xx): catch logs, finally setLoading(false)
FetchFail(i) ==
  /\ loading' = FALSE
  /\ fetches' = RemoveAt(fetches, i)
  /\ last' = IF fetches[i].cause = "revert" THEN "fetchFailRevert" ELSE "fetchFailMount"
  /\ UNCHANGED <<store, session, puts, server, gesture, moves>>

\* --------------------------------------------------------- drag and drop
\* HandleDragStart that keeps a session it finds instead of overwriting it
HandleDragStart_KeepEarlier(stageId, i) ==
  /\ gesture = "none"
  /\ ~loading
  /\ i \in 1..Len(board[stageId])
  /\ draggedDeal' = IF draggedDeal = NoDeal THEN board[stageId][i] ELSE draggedDeal
  /\ dragSourceStage' = IF draggedDeal = NoDeal THEN stageId ELSE dragSourceStage
  /\ gesture' = stageId
  /\ last' = "dragStart"
  /\ UNCHANGED <<store, loading, puts, fetches, server, moves>>

\* a deal card is rendered (and draggable) only when loading is false
HandleDragStart(stageId, i) ==
  /\ gesture = "none"
  /\ ~loading
  /\ i \in 1..Len(board[stageId])
  /\ draggedDeal' = board[stageId][i]
  /\ dragSourceStage' = stageId
  /\ gesture' = stageId
  /\ last' = "dragStart"
  /\ UNCHANGED <<store, loading, puts, fetches, server, moves>>

\* a drag of something that is no deal card (a file, selected text): the
\* stage columns accept it (onDragOver prevents the default), no handler runs
ForeignDragStart ==
  /\ gesture = "none"
  /\ gesture' = "foreign"
  /\ last' = "other"
  /\ UNCHANGED <<store, loading, session, puts, fetches, server, moves>>

\* the drag ends outside every stage column: the page registers no handler
\* for it (the card has onDragStart only)
DragCancel ==
  /\ gesture # "none"
  /\ gesture' = "none"
  /\ last' = "other"
  /\ UNCHANGED <<store, loading, session, puts, fetches, server, moves>>

\* DropIgnored without the comparison of source and target
DropIgnored_NoSameStage(targetStageId) ==
  \/ draggedDeal = NoDeal
  \/ dragSourceStage = NoStage

\* if (!draggedDeal || !dragSourceStage || dragSourceStage === targetStageId)
DropIgnored(targetStageId) ==
  \/ draggedDeal = NoDeal
  \/ dragSourceStage = NoStage
  \/ dragSourceStage = targetStageId

\* NewBoard that filters the card out of every bucket and appends nothing
NewBoard_DropsCard(targetStageId) ==
  [s \in Stages |->
     SelectSeq(board[s],
               LAMBDA d : d.analysis_id # draggedDeal.analysis_id)]

\* NewBoard with the moved card put in front of the target bucket
NewBoard_Prepend(targetStageId) ==
  LET entryId == draggedDeal.analysis_id
      b1 == [board EXCEPT ![dragSourceStage] =
               SelectSeq(board[dragSourceStage],
                         LAMBDA d : d.analysis_id # entryId)]
  IN [b1 EXCEPT ![targetStageId] =
        <<[draggedDeal EXCEPT !.stage = targetStageId]>> \o b1[targetStageId]]

\* NewBoard with the dragged card appended as it is, stage field untouched
NewBoard_KeepStage(targetStageId) ==
  LET entryId == draggedDeal.analysis_id
      b1 == [board EXCEPT ![dragSourceStage] =
               SelectSeq(board[dragSourceStage],
                         LAMBDA d : d.analysis_id # entryId)]
  IN [b1 EXCEPT ![targetStageId] = Append(b1[targetStageId], draggedDeal)]

\* the optimistic board: the card is filtered out of the source bucket and
\* a copy with the new stage is appended to the target bucket
NewBoard(targetStageId) ==
  LET entryId == draggedDeal.analysis_id
      b1 == [board EXCEPT ![dragSourceStage] =
               SelectSeq(board[dragSourceStage],
                         LAMBDA d : d.analysis_id # entryId)]
  IN [b1 EXCEPT ![targetStageId] =
        Append(b1[targetStageId], [draggedDeal EXCEPT !.stage = targetStageId])]

\* NewCounts without the || fallbacks: plain counts[source] - 1
NewCounts_NoFallback(targetStageId) ==
  LET c1 == [counts EXCEPT ![dragSourceStage] = counts[dragSourceStage] - 1]
  IN [c1 EXCEPT ![targetStageId] = c1[targetStageId] + 1]

\* NewCounts left for a later turn: this turn still shows the old counts
NewCounts_NotYet(targetStageId) == counts

\* newCounts[source] = (counts[source] || 1) - 1, then
\* newCounts[target] = (newCounts[target] || 0) + 1
NewCounts(targetStageId) ==
  LET c1 == [counts EXCEPT ![dragSourceStage] =
               OrElse(counts[dragSourceStage], 1) - 1]
  IN [c1 EXCEPT ![targetStageId] = OrElse(c1[targetStageId], 0) + 1]

\* HandleDrop that sends the PUT and leaves the optimistic update to the
\* continuation
HandleDrop_RequestFirst(targetStageId) ==
  /\ gesture # "none"
  /\ gesture' = "none"
  /\ last' = DropKind(targetStageId)
  /\ IF DropIgnored(targetStageId)
     THEN /\ draggedDeal' = NoDeal
          /\ dragSourceStage' = NoStage
          /\ UNCHANGED <<store, loading, puts, fetches, server, moves>>
     ELSE /\ moves < MaxMoves
          /\ Len(puts) < MaxInFlight
          /\ moves' = moves + 1
          /\ puts' = Append(puts, [entryId |-> draggedDeal.analysis_id,
                                   new_stage |-> targetStageId,
                                   st |-> "sent"])
          /\ UNCHANGED <<store, loading, session, fetches, server>>

\* handleDrop up to its await: either the early return, or the optimistic
\* update and the PUT
HandleDrop(targetStageId) ==
  /\ gesture # "none"
  /\ gesture' = "none"
  /\ last' = DropKind(targetStageId)
  /\ IF DropIgnored(targetStageId)
     THEN /\ draggedDeal' = NoDeal
          /\ dragSourceStage' = NoStage
          /\ UNCHANGED <<store, loading, puts, fetches, server, moves>>
     ELSE /\ moves < MaxMoves
          /\ Len(puts) < MaxInFlight
          /\ moves' = moves + 1
          /\ board' = NewBoard(targetStageId)
          /\ counts' = NewCounts(targetStageId)
          /\ puts' = Append(puts, [entryId |-> draggedDeal.analysis_id,
                                   new_stage |-> targetStageId,
                                   st |-> "sent"])
          /\ UNCHANGED <<totalDeals, activeDeals, loading, session,
                         fetches, server>>

\* the server accepts a PUT: the move is applied and 2xx is on its way (a
\* PUT the server refuses leaves the server as it is: see PutFail)
ServerHandlePut(i) ==
  /\ puts[i].st = "sent"
  /\ puts' = [puts EXCEPT ![i].st = "ok"]
  /\ server' = [server EXCEPT ![puts[i].entryId] = puts[i].new_stage]
  /\ last' = "other"
  /\ UNCHANGED <<store, loading, session, fetches, gesture, moves>>

\* PutOk that reloads the board as the failure path does
PutOk_Reloads(i) ==
  /\ puts[i].st = "ok"
  /\ Len(fetches) < MaxInFlight
  /\ puts' = RemoveAt(puts, i)
  /\ IssueFetch("revert")
  /\ draggedDeal' = NoDeal
  /\ dragSourceStage' = NoStage
  /\ last' = "putOk"
  /\ UNCHANGED <<store, server, gesture, moves>>

\* the continuation of handleDrop, response.ok: only the finally block
PutOk(i) ==
  /\ puts[i].st = "ok"
  /\ puts' = RemoveAt(puts, i)
  /\ draggedDeal' = NoDeal
  /\ dragSourceStage' = NoStage
  /\ last' = "putOk"
  /\ UNCHANGED <<store, loading, fetches, server, gesture, moves>>

\* PutFail that sends the stage update again instead of reloading
PutFail_Retry(i, how) ==
  /\ how = "http" => puts[i].st = "sent"
  /\ puts' = Append(RemoveAt(puts, i), [puts[i] EXCEPT !.st = "sent"])
  /\ draggedDeal' = NoDeal
  /\ dragSourceStage' = NoStage
  /\ last' = IF how = "http" THEN "putFailHttp" ELSE "putFailTransport"
  /\ UNCHANGED <<store, loading, fetches, server, gesture, moves>>

\* PutFail without the finally block
PutFail_KeepSession(i, how) ==
  /\ how = "http" => puts[i].st = "sent"
  /\ Len(fetches) < MaxInFlight
  /\ puts' = RemoveAt(puts, i)
  /\ IssueFetch("revert")
  /\ last' = IF how = "http" THEN "putFailHttp" ELSE "putFailTransport"
  /\ UNCHANGED <<store, session, server, gesture, moves>>

\* the continuation of handleDrop, !response.ok ("http": the server refused
\* the request with a non-2xx answer) or catch ("transport": the request or
\* the server's answer is lost): fetchPipelineData() is started, then the
\* finally block
PutFail(i, how) ==
  /\ how = "http" => puts[i].st = "sent"
  /\ Len(fetches) < MaxInFlight
  /\ puts' = RemoveAt(puts, i)
  /\ IssueFetch("revert")
  /\ draggedDeal' = NoDeal
  /\ dragSourceStage' = NoStage
  /\ last' = IF how = "http" THEN "putFailHttp" ELSE "putFailTransport"
  /\ UNCHANGED <<store, server, gesture, moves>>

\* ------------------------------------------------------------ specification
\* the page after mount: empty state, loading, and the fetch of useEffect;
\* the server starts with every deal in a stage that is not terminal
Init ==
  /\ board = EmptyBoard
  /\ counts = EmptyCounts
  /\ totalDeals = 0
  /\ activeDeals = 0
  /\ loading = TRUE
  /\ draggedDeal = NoDeal
  /\ dragSourceStage = NoStage
  /\ puts = <<>>
  /\ fetches = <<[st |-> "sent", snap |-> NoSnap, wire |-> "full",
                  cause |-> "mount", overtaken |-> FALSE]>>
  /\ server \in {srv \in [Deals -> Stages \ TerminalStages] :
                   srv[DealOrder[1]] = "new"}
  /\ gesture = "none"
  /\ moves = 0
  /\ last = "mount"

Next ==
  \/ \E s \in Stages : \E i \in 1..MaxCards : HandleDragStart(s, i)
  \/ ForeignDragStart
  \/ DragCancel
  \/ \E t \in Stages : HandleDrop(t)
  \/ \E i \in 1..MaxInFlight : i <= Len(puts) /\ ServerHandlePut(i)
  \/ \E i \in 1..MaxInFlight : i <= Len(puts) /\ PutOk(i)
  \/ \E i \in 1..MaxInFlight : i <= Len(puts) /\ \E how \in {"http", "transport"} : PutFail(i, how)
  \/ \E i \in 1..MaxInFlight : i <= Len(fetches) /\ ServerHandleFetch(i)
  \/ \E i \in 1..MaxInFlight : i <= Len(fetches) /\ FetchOk(i)
  \/ \E i \in 1..MaxInFlight : i <= Len(fetches) /\ FetchFail(i)

Spec == Init /\ [][Next]_vars

\* the same page in front of a server that may also send payloads whose
\* counts do not describe their buckets
NextWire ==
  \/ Next
  \/ \E i \in 1..MaxInFlight : i <= Len(fetches) /\ ServerHandleFetchNoCounts(i)

SpecWire == Init /\ [][NextWire]_vars

\* the same page when no stage update fails: the server accepts every PUT
\* and every answer arrives
NextAccept ==
  \/ \E s \in Stages : \E i \in 1..MaxCards : HandleDragStart(s, i)
  \/ ForeignDragStart
  \/ DragCancel
  \/ \E t \in Stages : HandleDrop(t)
  \/ \E i \in 1..MaxInFlight : i <= Len(puts) /\ ServerHandlePut(i)
  \/ \E i \in 1..MaxInFlight : i <= Len(puts) /\ PutOk(i)
  \/ \E i \in 1..MaxInFlight : i <= Len(fetches) /\ ServerHandleFetch(i)
  \/ \E i \in 1..MaxInFlight : i <= Len(fetches) /\ FetchOk(i)
  \/ \E i \in 1..MaxInFlight : i <= Len(fetches) /\ FetchFail(i)

SpecAccept == Init /\ [][NextAccept]_vars

\* a turn that answers a request in flight: the server handles it, or the
\* page handles the answer or the transport error
Respond ==
  \/ \E i \in 1..MaxInFlight : i <= Len(puts) /\ ServerHandlePut(i)
  \/ \E i \in 1..MaxInFlight : i <= Len(puts) /\ PutOk(i)
  \/ \E i \in 1..MaxInFlight : i <= Len(puts) /\ \E how \in {"http", "transport"} : PutFail(i, how)
  \/ \E i \in 1..MaxInFlight : i <= Len(fetches) /\ ServerHandleFetch(i)
  \/ \E i \in 1..MaxInFlight : i <= Len(fetches) /\ FetchOk(i)
  \/ \E i \in 1..MaxInFlight : i <= Len(fetches) /\ FetchFail(i)

\* the page when every request in flight is answered in the end; the user
\* is under no obligation to act
SpecFair == Spec /\ WF_vars(Respond)

\* ------------------------------------------------------------------ claims
\* the drop handled by this step and what the step found in the session
DropStep(t) == HandleDrop(t)
CrossDropStep(t) == HandleDrop(t) /\ ~DropIgnored(t)
TrackedInSource ==
  \E i \in 1..Len(board[dragSourceStage]) :
    board[dragSourceStage][i].analysis_id = draggedDeal.analysis_id
NoRequestIssued == UNCHANGED <<puts, fetches>>
SessionCleared == draggedDeal' = NoDeal /\ dragSourceStage' = NoStage

\* C1: once a snapshot is loaded, every deal identifier is on exactly one
\* card of the board: in one bucket, once.
C1_ExactlyOneBucket ==
  board # EmptyBoard => \A d \in Deals : Occurrences(board, d) = 1

\* C2: between turns, counts[s] is the length of the bucket of s, for every
\* stage s.
C2_CountsMatchBuckets ==
  \A s \in Stages : counts[s] = Len(board[s])

\* C3: right after a drop on a stage other than the tracked source stage the
\* moved card has the target stage, counts[source] is one less and
\* counts[target] one more than before.
C3_OptimisticVisibility ==
  [][\A t \in Stages :
       CrossDropStep(t) =>
         /\ Len(board'[t]) > 0
         /\ board'[t][Len(board'[t])].analysis_id = draggedDeal.analysis_id
         /\ board'[t][Len(board'[t])].stage = t
         /\ counts'[dragSourceStage] = counts[dragSourceStage] - 1
         /\ counts'[t] = counts[t] + 1]_vars

\* C4: when the response of a fetch that follows a failed stage update is
\* applied, buckets, counts, totalDeals and activeDeals are exactly those of
\* the fetched snapshot.
C4_ReloadEqualsSnapshot ==
  [][last' = "fetchOkRevert" =>
       \E i \in 1..Len(fetches) :
         /\ fetches[i].st = "ok"
         /\ fetches[i].cause = "revert"
         /\ Len(fetches') = Len(fetches) - 1
         /\ board' = Snapshot(fetches[i].snap).board
         /\ counts' = Snapshot(fetches[i].snap).counts
         /\ totalDeals' = Snapshot(fetches[i].snap).total_deals
         /\ activeDeals' = Snapshot(fetches[i].snap).active_deals]_vars

\* a reload after a failed update has replaced a board that showed a move
\* the server does not have
C4_Witness ==
  /\ last = "fetchOkRevert"
  /\ moves > 0
  /\ board = SnapshotBoard(server)

\* C5: a drop on the tracked source stage changes no bucket, count, stage
\* field or total and issues neither a stage update nor a board fetch.
C5_SameStageDropIsNoop ==
  [][\A t \in Stages :
       (DropStep(t) /\ draggedDeal # NoDeal /\ dragSourceStage = t) =>
         (UNCHANGED store /\ NoRequestIssued)]_vars

\* a card was dragged and dropped on its own column
C5_Witness ==
  /\ last = "dropSameStage"
  /\ draggedDeal = NoDeal
  /\ puts = <<>>

\* C6: a drop that no drag-start of a card precedes (the drop of a foreign
\* drag) changes no bucket and no count and issues no request.
C6_DropWithoutDragStartIsNoop ==
  [][\A t \in Stages :
       (DropStep(t) /\ gesture = "foreign") =>
         (UNCHANGED store /\ NoRequestIssued)]_vars

\* C7: a cross-stage drop whose tracked deal is not in the bucket of the
\* tracked source stage leaves buckets and counts alone, issues no stage
\* update and clears the session.
C7_StaleDropDiscarded ==
  [][\A t \in Stages :
       (CrossDropStep(t) /\ ~TrackedInSource) =>
         (UNCHANGED <<board, counts>> /\ NoRequestIssued /\ SessionCleared)]_vars

\* C8: a drag cancel empties the drag session, changes no bucket or count
\* and issues no request.
C8_CancelClearsSession ==
  [][DragCancel =>
       (SessionCleared /\ UNCHANGED store /\ NoRequestIssued)]_vars

\* C9: between turns, activeDeals is the sum of counts over the non-terminal
\* stages.
C9_ActiveDealsIsSum ==
  activeDeals = SumOver(counts, Stages \ TerminalStages)

\* C10: between turns, totalDeals is the sum of counts over all stages.
C10_TotalDealsIsSum ==
  totalDeals = SumOver(counts, Stages)

\* the turn was the continuation of handleDrop after a failed stage update
PutFailed(l) == l \in {"putFailHttp", "putFailTransport"}

\* C11: between turns, every card in the bucket of stage s has its stage
\* field equal to s, the card a drop has just moved included.
C11_StageFieldMatchesBucket ==
  \A s \in Stages : \A i \in 1..Len(board[s]) : board[s][i].stage = s

\* a cross-stage drop has just put a card at the end of another bucket
C11_Witness ==
  /\ last = "dropCrossStage"
  /\ \E s \in Stages :
       /\ Len(board[s]) > 0
       /\ board[s][Len(board[s])].analysis_id = draggedDeal.analysis_id
       /\ s # dragSourceStage

\* C12: the turn that handles a 2xx answer to a stage update changes no
\* bucket, count or total, issues no board fetch, takes the answered request
\* out of flight and leaves the drag session empty.
C12_SuccessKeepsBoard ==
  [][last' = "putOk" =>
       /\ UNCHANGED <<store, loading, fetches>>
       /\ Len(puts') = Len(puts) - 1
       /\ SessionCleared]_vars

\* a stage update was confirmed and the engine is idle on the moved board
C12_Witness ==
  /\ last = "putOk"
  /\ puts = <<>>
  /\ fetches = <<>>
  /\ draggedDeal = NoDeal
  /\ ~loading
  /\ moves > 0

\* C13: a cross-stage drop issues exactly one stage update and no fetch; a
\* failed stage update (non-2xx or transport error) issues exactly one board
\* fetch and is not sent again; a confirmed one issues no fetch; no other
\* turn issues a stage update.
C13_OneUpdateOneReload ==
  [][/\ \A t \in Stages :
          CrossDropStep(t) =>
            /\ puts' = Append(puts, [entryId |-> draggedDeal.analysis_id,
                                     new_stage |-> t, st |-> "sent"])
            /\ UNCHANGED fetches
     /\ PutFailed(last') =>
          /\ Len(fetches') = Len(fetches) + 1
          /\ fetches'[Len(fetches')].st = "sent"
          /\ Len(puts') = Len(puts) - 1
     /\ last' = "putOk" => (UNCHANGED fetches /\ Len(puts') = Len(puts) - 1)
     /\ Len(puts') > Len(puts) => \E t \in Stages : CrossDropStep(t)]_vars

\* a stage update has failed and its one reload is in flight
C13_Witness ==
  /\ PutFailed(last)
  /\ Len(fetches) = 1
  /\ puts = <<>>
  /\ moves = 1

\* the board shows what the server holds: every deal on one card, in the
\* bucket of its stage on the server (the order inside a bucket aside)
BoardMatchesServer ==
  \A s \in Stages :
    /\ {board[s][i].analysis_id : i \in 1..Len(board[s])} =
         {d \in Deals : server[d] = s}
    /\ Len(board[s]) = Cardinality({d \in Deals : server[d] = s})
NothingInFlight == puts = <<>> /\ fetches = <<>>

\* C14: a loaded board is speculative only while a request for it is still
\* in flight: with no request in flight it is the server's board.
C14_PendingOrAuthoritative ==
  (board # EmptyBoard /\ NothingInFlight) => BoardMatchesServer

\* C15: when the reload that follows a failed stage update has been applied
\* and no request is in flight, the board is the server's board, also when
\* another stage update was in flight meanwhile.
C15_ReloadResyncs ==
  (last = "fetchOkRevert" /\ NothingInFlight) => BoardMatchesServer

\* C16: a card dragged while an earlier stage update is in flight and dropped
\* on a column other than its own is moved on the board and its stage update
\* is issued, whenever the earlier response arrives.
C16_SecondDragApplied ==
  [][\A t \in Stages :
       (HandleDrop(t) /\ gesture \in Stages /\ gesture # t) =>
         /\ board' # board
         /\ Len(puts') = Len(puts) + 1
         /\ puts'[Len(puts')].new_stage = t]_vars

\* the turn applied the answer of a board fetch
FetchLoaded(l) == l \in {"fetchOkMount", "fetchOkRevert"}

\* C17: after a successful board fetch counts[s] is the length of the
\* loaded bucket of s for every stage, whatever counts the payload carried.
C17_CountsRecomputedOnLoad ==
  [][FetchLoaded(last') =>
       \A s \in Stages : counts'[s] = Len(board'[s])]_vars

\* the turn handled a board fetch that failed
FetchFailed(l) == l \in {"fetchFailMount", "fetchFailRevert"}

\* C18: the turn that handles a failed board fetch leaves buckets, counts,
\* totalDeals and activeDeals as they were, and the cards are rendered (and
\* draggable) again.
C18_FailedFetchKeepsBoard ==
  [][FetchFailed(last') =>
       (UNCHANGED store /\ UNCHANGED session /\ ~loading')]_vars

\* a reload has failed and the speculative board is still shown
C18_Witness ==
  /\ last = "fetchFailRevert"
  /\ board # EmptyBoard
  /\ ~BoardMatchesServer
  /\ ~loading

\* a turn started by the user: drag-start, drop, cancel
UserTurn ==
  \/ \E s \in Stages : \E i \in 1..MaxCards : HandleDragStart(s, i)
  \/ ForeignDragStart
  \/ DragCancel
  \/ \E t \in Stages : HandleDrop(t)

\* C19: after the reload that follows a failed stage update has failed, the
\* user can refresh by hand: some turn of the user issues a board fetch.
C19_ManualRefreshOffered ==
  last = "fetchFailRevert" =>
    ENABLED (UserTurn /\ Len(fetches') > Len(fetches))

\* C20: the drag session is empty after a drop that returns early (no
\* session, same stage) and after the turn that handles the answer to the
\* stage update of a cross-stage drop: 2xx, non-2xx or transport error.
C20_SessionClearedOnEveryPath ==
  [][/\ \A t \in Stages : (HandleDrop(t) /\ DropIgnored(t)) => SessionCleared
     /\ (last' = "putOk" \/ PutFailed(last')) => SessionCleared]_vars

\* the stage update of a drop failed in transport and its session is gone
C20_Witness ==
  /\ last = "putFailTransport"
  /\ draggedDeal = NoDeal
  /\ dragSourceStage = NoStage

\* C21: a drag-start on the card at position i of stage s leaves the session
\* exactly (that card, s), whatever session it found, and changes no bucket,
\* count, total, loading flag or in-flight request.
C21_DragStartSetsOnlySession ==
  [][\A s \in Stages : \A i \in 1..MaxCards :
       HandleDragStart(s, i) =>
         /\ draggedDeal' = board[s][i]
         /\ dragSourceStage' = s
         /\ UNCHANGED <<store, loading, puts, fetches>>]_vars

\* a card was picked up from a column other than the one the session of an
\* earlier, still unanswered drop was taken from
C21_Witness ==
  /\ last = "dragStart"
  /\ puts # <<>>
  /\ draggedDeal.analysis_id = puts[Len(puts)].entryId
  /\ dragSourceStage = puts[Len(puts)].new_stage
  /\ draggedDeal.stage = dragSourceStage

\* C22: a cross-stage drop of deal d leaves the source bucket as it was
\* without the cards of d, the target bucket as it was with one card of d
\* added at its end, and every other bucket unchanged.
C22_MoveKeepsOrder ==
  [][\A t \in Stages :
       CrossDropStep(t) =>
         /\ board'[dragSourceStage] =
              SelectSeq(board[dragSourceStage],
                        LAMBDA c : c.analysis_id # draggedDeal.analysis_id)
         /\ Len(board'[t]) = Len(board[t]) + 1
         /\ SubSeq(board'[t], 1, Len(board[t])) = board[t]
         /\ board'[t][Len(board'[t])].analysis_id = draggedDeal.analysis_id
         /\ \A s \in Stages \ {dragSourceStage, t} : board'[s] = board[s]]_vars

\* a card was dropped on a column that already held another deal, and was
\* put behind it
C22_Witness ==
  /\ last = "dropCrossStage"
  /\ \E s \in Stages \ {dragSourceStage} :
       /\ Len(board[s]) >= 2
       /\ board[s][Len(board[s])].analysis_id = draggedDeal.analysis_id
       /\ board[s][1].analysis_id # draggedDeal.analysis_id

\* C23: a stage update is issued only by a cross-stage drop; it carries the
\* identifier of the tracked deal and the drop's target as new_stage, and the
\* board the same turn leaves shows that deal, with the target as its stage,
\* at the end of the target bucket.
C23_BoardBeforeRequest ==
  [][Len(puts') > Len(puts) =>
       \E t \in Stages :
         /\ CrossDropStep(t)
         /\ puts'[Len(puts')].entryId = draggedDeal.analysis_id
         /\ puts'[Len(puts')].new_stage = t
         /\ puts'[Len(puts')].st = "sent"
         /\ Len(board'[t]) > 0
         /\ board'[t][Len(board'[t])] = PipelineDeal(draggedDeal.analysis_id, t)]_vars

\* a stage update is on its way to the server and the board shows its move
C23_Witness ==
  /\ last = "dropCrossStage"
  /\ puts # <<>>
  /\ puts[Len(puts)].st = "sent"
  /\ LET b == board[puts[Len(puts)].new_stage]
     IN /\ Len(b) > 0
        /\ b[Len(b)] = PipelineDeal(puts[Len(puts)].entryId,
                                    puts[Len(puts)].new_stage)
  /\ server[puts[Len(puts)].entryId] # puts[Len(puts)].new_stage

\* C24: a turn that changes the buckets is a cross-stage drop or the load of
\* a fetched snapshot; the drop changes the counts in the same turn, and the
\* load sets counts, totalDeals and activeDeals of the same snapshot in the
\* same turn: no state between turns shows the one without the other.
C24_StoreMutationsAtomic ==
  [][/\ board' # board => ((\E t \in Stages : CrossDropStep(t)) \/ FetchLoaded(last'))
     /\ \A t \in Stages :
          CrossDropStep(t) =>
            /\ board' # board
            /\ counts'[t] = counts[t] + 1
            /\ counts'[dragSourceStage] # counts[dragSourceStage]
                 \/ counts[dragSourceStage] = 0
     /\ FetchLoaded(last') =>
          \E i \in 1..Len(fetches) :
            /\ fetches[i].st = "ok"
            /\ Len(fetches') = Len(fetches) - 1
            /\ board' = Snapshot(fetches[i].snap).board
            /\ counts' = Snapshot(fetches[i].snap).counts
            /\ totalDeals' = Snapshot(fetches[i].snap).total_deals
            /\ activeDeals' = Snapshot(fetches[i].snap).active_deals]_vars

\* a drop has moved a card and the counts of both columns with it
C24_Witness ==
  /\ last = "dropCrossStage"
  /\ puts # <<>>
  /\ board # SnapshotBoard(server)
  /\ \A s \in Stages : counts[s] = Len(board[s])
  /\ counts[dragSourceStage] = 0

\* no request in flight, no drag session, nothing loading
Quiescent ==
  /\ NothingInFlight
  /\ draggedDeal = NoDeal
  /\ dragSourceStage = NoStage
  /\ ~loading

\* C25: when every request in flight is answered in the end, every
\* cross-stage drop is followed by a state with no request in flight, an
\* empty drag session and the loading flag false.
C25_DropReachesIdle ==
  (last = "dropCrossStage") ~> Quiescent

\* C26: when every stage update succeeds, then with no request in flight
\* and every deal on exactly one card the board is the server's board, also
\* after two drops of the same deal whose requests were in flight together.
C26_LastMutationWins ==
  (/\ board # EmptyBoard
   /\ NothingInFlight
   /\ \A d \in Deals : Occurrences(board, d) = 1) => BoardMatchesServer

\* C27: when the answer of a board fetch is applied right after the answer
\* of a fetch that was issued later, the board stays the snapshot of the
\* later fetch: the order in which the answers arrive does not matter.
C27_LastIssuedFetchWins ==
  [][\A i \in 1..Len(fetches) :
       (FetchOk(i) /\ fetches[i].overtaken /\ FetchLoaded(last)) =>
         board' = board]_vars

\* C28: the loading flag is true in every state in which a board fetch is
\* in flight, also when several fetches overlap.
C28_LoadingWhileFetching ==
  fetches # <<>> => loading

\* C29: no count is ever negative, also after a drop whose source stage had
\* the count 0.
C29_CountsNonNegative ==
  \A s \in Stages : counts[s] >= 0

\* a drop found the count of its source stage at 0 and left it there: the
\* counts now add up to more than the deals there are
C29_Witness ==
  /\ last = "dropCrossStage"
  /\ counts[dragSourceStage] = 0
  /\ SumOver(counts, Stages) > Cardinality(Deals)

\* the identifiers on the cards of a board
IdsOn(b) ==
  UNION {{b[s][i].analysis_id : i \in 1..Len(b[s])} : s \in Stages}

\* C30: a drop leaves the set of deal identifiers on the board as it was,
\* and the card a cross-stage drop adds is the dragged deal with nothing but
\* its stage changed.
C30_DropKeepsDeals ==
  [][\A t \in Stages :
       DropStep(t) =>
         /\ IdsOn(board') = IdsOn(board)
         /\ ~DropIgnored(t) =>
              board'[t][Len(board'[t])] = [draggedDeal EXCEPT !.stage = t]]_vars

\* a card has been moved and every deal is still on the board, once
C30_Witness ==
  /\ last = "dropCrossStage"
  /\ \A d \in Deals : Occurrences(board, d) = 1
  /\ board[dragSourceStage] = <<>>
  /\ moves = MaxMoves

====
